---- MODULE Spec2Model ----
(***************************************************************************)
(* Home Assistant Stream Deck integration                                   *)
(* (src/home-assistant-streamdeck-yaml.py).                                 *)
(*                                                                          *)
(* Dotted identifiers (entity ids, services) are sequences of their         *)
(* segments: "light.turn_on" is <<"light", "turn_on">>.  The Python None    *)
(* of an optional dotted identifier is the empty sequence, the None of an   *)
(* optional plain string is the value None below.  A dict is a function;    *)
(* service_data is a set of <<key, value>> pairs.                           *)
(***************************************************************************)
EXTENDS Naturals, Sequences, FiniteSets

\* ------------------------------------------------------------ bounds
MaxEvents == 2
MaxCallbacks == 2
MaxResets == 2

\* ------------------------------------------------------------ values
None == "None"
NoId == <<>>

LightX == <<"light", "x">>
LightKitchen == <<"light", "kitchen">>
SwitchFan == <<"switch", "fan">>
ScriptFoo == <<"script", "foo">>
SensorT == <<"sensor", "t">>

StateTemplate == "{{ state.state }}"
ColorTemplate == "{{ 'red' if state.state == 'on' else 'blue' }}"

DEFAULT_MDI_ICONS == [light |-> "lightbulb", switch |-> "power-socket-eu"]

\* class Button: the fields and their defaults
Button(entity_id, service, service_data, text, text_color, icon, icon_mdi) ==
    [entity_id |-> entity_id, service |-> service, service_data |-> service_data,
     text |-> text, text_color |-> text_color, text_size |-> 12,
     icon |-> icon, icon_mdi |-> icon_mdi]

\* str.split(".", 1)[0] and str.split(".") on a dotted identifier
SplitFirst(s) == s[1]
SplitAll(s) == s

\* Button.domain
domain(button) ==
    IF button.service = NoId THEN None ELSE SplitFirst(button.service)

\* _render_jinja(text, data={"state": st}) on the templates used here; a
\* text without template markup renders to itself
_render_jinja(text, st) ==
    CASE text = StateTemplate -> st.state
      [] text = ColorTemplate -> IF st.state = "on" THEN "red" ELSE "blue"
      [] OTHER -> text

\* `x or "white"`: None and the empty string are falsy
OrDefault(x, d) == IF x = None \/ x = "" THEN d ELSE x

\* update_key_image, the branch taken
has_entity(button, state) == button.entity_id \in DOMAIN state

resolve_text(button, state) ==
    IF has_entity(button, state)
    THEN _render_jinja(button.text, state[button.entity_id])
    ELSE button.text

\* variant: the "on" highlight is never applied
resolve_text_color_no_highlight(button, state) ==
    IF has_entity(button, state)
    THEN IF button.text_color # None
         THEN _render_jinja(button.text_color, state[button.entity_id])
         ELSE "white"
    ELSE OrDefault(button.text_color, "white")

resolve_text_color(button, state) ==
    IF has_entity(button, state)
    THEN IF button.text_color # None
         THEN _render_jinja(button.text_color, state[button.entity_id])
         ELSE IF state[button.entity_id].state = "on" THEN "orangered" ELSE "white"
    ELSE OrDefault(button.text_color, "white")

\* variant: the domain default is applied whether or not the entity is in state
resolve_icon_mdi_always_default(button, state) ==
    IF button.icon_mdi # None
    THEN button.icon_mdi
    ELSE IF button.icon = None /\ domain(button) \in DOMAIN DEFAULT_MDI_ICONS
         THEN DEFAULT_MDI_ICONS[domain(button)]
         ELSE None

resolve_icon_mdi(button, state) ==
    IF has_entity(button, state)
    THEN IF button.icon_mdi # None
         THEN button.icon_mdi
         ELSE IF button.icon = None /\ domain(button) \in DOMAIN DEFAULT_MDI_ICONS
              THEN DEFAULT_MDI_ICONS[domain(button)]
              ELSE None
    ELSE button.icon_mdi

\* variant: key_pressed is ignored
pressed_color_ignored(text_color, key_pressed) == text_color

pressed_color(text_color, key_pressed) ==
    IF key_pressed THEN "green" ELSE text_color

\* the keyword arguments update_key_image passes to render_key_image
render_args(button, state, key_pressed) ==
    [label_text |-> resolve_text(button, state),
     text_color |-> pressed_color(resolve_text_color(button, state), key_pressed),
     icon_mdi |-> resolve_icon_mdi(button, state),
     icon_filename |-> button.icon,
     font_size |-> button.text_size]

\* render_key_image: what is drawn (a file icon, else a downloaded mdi icon
\* tinted with the text colour, else a black key), and the label
render_key_image(a) ==
    [icon |-> IF a.icon_filename # None THEN <<"file", a.icon_filename>>
              ELSE IF a.icon_mdi # None THEN <<"mdi", a.icon_mdi, a.text_color>>
              ELSE <<"black">>,
     text |-> a.label_text, fill |-> a.text_color, font_size |-> a.font_size]

\* ------------------------------------------------------------ dict, list
\* d[k] = v on a dict
DictSet(d, k, v) == [x \in DOMAIN d \cup {k} |-> IF x = k THEN v ELSE d[x]]

\* variant: the new record is merged over the previous one
StoreNewState_merge(state, eid, new_state) ==
    DictSet(state, eid,
            IF eid \in DOMAIN state
            THEN [f \in DOMAIN new_state \cup DOMAIN state[eid] |->
                    IF f \in DOMAIN new_state THEN new_state[f] ELSE state[eid][f]]
            ELSE new_state)

\* _update_state line 132: state[eid] = event_data["new_state"]
StoreNewState(state, eid, new_state) == DictSet(state, eid, new_state)

\* get_states line 163: {state["entity_id"]: state for state in data["result"]}
RECURSIVE StateDict(_)
StateDict(result) ==
    IF result = <<>> THEN <<>>
    ELSE DictSet(StateDict(SubSeq(result, 1, Len(result) - 1)),
                 result[Len(result)].entity_id, result[Len(result)])

\* keys are numbered from 0; buttons[key] of the source is ButtonAt(buttons, key)
ButtonAt(buttons, key) == buttons[key + 1]
KeyRange(buttons) == [i \in 1..Len(buttons) |-> i - 1]

\* variant: only the first key bound to the entity is returned
_keys_first(entity_id, buttons) ==
    LET all == SelectSeq(KeyRange(buttons),
                         LAMBDA k : ButtonAt(buttons, k).entity_id = entity_id)
    IN IF all = <<>> THEN <<>> ELSE <<all[1]>>

\* variant: every key is returned
_keys_all(entity_id, buttons) == KeyRange(buttons)

\* _keys
_keys(entity_id, buttons) ==
    SelectSeq(KeyRange(buttons), LAMBDA k : ButtonAt(buttons, k).entity_id = entity_id)

\* one update_key_image call: the arguments rendered and the push of the image
KeyPush(buttons, state, key, key_pressed) ==
    [key |-> key, key_pressed |-> key_pressed,
     args |-> render_args(ButtonAt(buttons, key), state, key_pressed)]

\* deck.set_key_image for a sequence of update_key_image calls, in order
RECURSIVE SetKeyImages(_, _)
SetKeyImages(images, pushes) ==
    IF pushes = <<>> THEN images
    ELSE SetKeyImages([images EXCEPT ![pushes[1].key] = render_key_image(pushes[1].args)],
                      Tail(pushes))

\* variant: hands out the counter without incrementing it
_next_id_reuse(counter) == counter

\* _next_id: the incremented global counter, which is also the id returned
_next_id(counter) == counter + 1

\* ------------------------------------------------------------ frames
AuthFrame == [type |-> "auth", access_token |-> "token"]
GetStatesFrame(id) == [type |-> "get_states", id |-> id]
UnsubscribeFrame(id, id_) == [id |-> id, type |-> "unsubscribe_events", subscription |-> id_]
SubscribeFrame(id) == [type |-> "subscribe_events", event_type |-> "state_changed", id |-> id]

\* call_service: the payload for a service "domain.service"
CallServiceFrame(id, service, data) ==
    [id |-> id, type |-> "call_service", domain |-> SplitAll(service)[1],
     service |-> SplitAll(service)[2], service_data |-> data]

\* variant: the release calls the service too
should_call_any_edge(button, key_pressed) == button.service # NoId

\* key_change_callback line 332
should_call(button, key_pressed) == key_pressed /\ button.service # NoId

\* variant: the entity_id is added to configured service_data too
call_data_augmented(button) ==
    IF button.entity_id # NoId
    THEN button.service_data \cup {<<"entity_id", button.entity_id>>}
    ELSE button.service_data

\* key_change_callback lines 333-336
call_data(button) ==
    IF button.service_data = {} /\ button.entity_id # NoId
    THEN {<<"entity_id", button.entity_id>>}
    ELSE button.service_data

\* inbound frames
StateChangedFrame(eid, new_state) ==
    [type |-> "event",
     event |-> [event_type |-> "state_changed",
                data |-> [entity_id |-> eid, new_state |-> new_state]]]
OtherEventFrame == [type |-> "event", event |-> [event_type |-> "call_service"]]
ResultFrame(id, result) == [type |-> "result", id |-> id, success |-> TRUE, result |-> result]

\* _update_state lines 127-129
is_state_changed(data) ==
    data.type = "event" /\ data.event.event_type = "state_changed"

\* ------------------------------------------------------------ inputs
\* the configuration file
Config ==
    << Button(LightX, <<"light", "toggle">>, {}, StateTemplate, None, None, None),
       Button(LightX, NoId, {}, "Lamp", ColorTemplate, None, None),
       Button(SwitchFan, <<"switch", "turn_on">>,
              {<<"entity_id", <<"switch", "other">>>>}, "Fan", None, None, "fan"),
       Button(NoId, <<"light", "turn_on">>, {}, "Run", "yellow", "icon.png", None) >>

SnapshotRecord(eid, s) == [entity_id |-> eid, state |-> s, brightness |-> "0"]

\* the replies the hub may give to get_states
SnapshotResults ==
    { <<>>,
      <<SnapshotRecord(LightX, "off")>>,
      <<SnapshotRecord(LightX, "on")>>,
      <<SnapshotRecord(LightX, "off"), SnapshotRecord(SwitchFan, "on")>>,
      <<SnapshotRecord(SwitchFan, "off"), SnapshotRecord(LightX, "on")>> }

EventEntities == {LightX, SwitchFan, SensorT}

\* the new_state payloads of the events the hub may send for an entity
NewStates(eid) ==
    { [entity_id |-> eid, state |-> "on", brightness |-> "255"],
      [entity_id |-> eid, state |-> "off"] }

StateChangedFrames ==
    UNION { { StateChangedFrame(e, n) : n \in NewStates(e) } : e \in EventEntities }

BlankImage == [icon |-> <<"reset">>, text |-> "", fill |-> "", font_size |-> 0]

\* ------------------------------------------------------------ device sink
\* number of update_key_image calls each activity makes
MaxPushes == 2

\* number of reports deck.set_key_image sends for one image
Pages == 2

\* the two callers of update_key_image once main is in its receive loop:
\* _update_state under handle_state_changes, and key_change_callback
Activities == {"loop", "callback"}

\* the sink with no call under way: the update lock free, every key blank
SinkIdle ==
    [lock |-> "free",
     act |-> [a \in Activities |-> [at |-> "idle", page |-> 1, calls |-> 0]],
     wire |-> [k \in 0..(Len(Config) - 1) |-> [p \in 1..Pages |-> BlankImage]],
     entered |-> [k \in 0..(Len(Config) - 1) |-> BlankImage]]

\* ------------------------------------------------------------ state
VARIABLES
    pc,          \* where main (and the setup_ws generator under it) stands
    err,         \* the exception that ended the process, "none" while it runs
    thrown,      \* setup_ws is run by __aexit__'s athrow (a reset raised in the body)
    tokenValid,  \* whether the hub accepts the access token
    authResp,    \* the hub's last reply to an auth frame, "none" before
    conn,        \* number of transports opened by websockets.connect
    wsOpen,      \* the transports that are open
    resets,      \* connection resets raised so far
    bodyResets,  \* those raised in the body of main's async with
    idCounter,   \* _ID_COUNTER
    getStatesId, \* _id of get_states
    sent,        \* the frames written, in order, each with its transport
    state,       \* the state dict (StateStore)
    snapshot,    \* the state dict as get_states built it
    arrived,     \* the state_changed event data processed, in arrival order
    buttons,     \* config.buttons
    images,      \* the image each key shows
    pushed,      \* the update_key_image calls of the last step, in order
    cbWs,        \* the transport the registered key callback holds, 0 if none
    brightness,  \* deck brightness
    keyDown,     \* the keys held down
    callbacks,   \* number of key callbacks run
    pressEdges,  \* number of presses of keys whose button has a service
    last,        \* the step just taken
    sink,        \* the deck's update lock and the image pages written to each key
    hub,         \* the hub's own entity states, and its changes that sent no event
    deckOpen     \* the deck's device handle is open

vars == <<pc, err, thrown, tokenValid, authResp, conn, wsOpen, resets, bodyResets,
          idCounter,
          getStatesId, sent, state, snapshot, arrived, buttons, images, pushed,
          cbWs, brightness, keyDown, callbacks, pressEdges, last, sink, hub, deckOpen>>

\* the variables of main and its callbacks
mainVars == <<pc, err, thrown, tokenValid, authResp, conn, wsOpen, resets, bodyResets,
              idCounter,
              getStatesId, sent, state, snapshot, arrived, buttons, images, pushed,
              cbWs, brightness, keyDown, callbacks, pressEdges, last, hub, deckOpen>>

Keys == 0..(Len(Config) - 1)

\* the hub before get_states: its entity states are one of the snapshots
HubInit == { [states |-> StateDict(r), missed |-> 0] : r \in SnapshotResults }

Init ==
    /\ pc = "connect"
    /\ err = "none"
    /\ thrown = FALSE
    /\ tokenValid \in BOOLEAN
    /\ authResp = "none"
    /\ conn = 0
    /\ wsOpen = {}
    /\ resets = 0
    /\ bodyResets = 0
    /\ idCounter = 0
    /\ getStatesId = 0
    /\ sent = <<>>
    /\ state = <<>>
    /\ snapshot = <<>>
    /\ arrived = <<>>
    /\ buttons = Config
    /\ images = [k \in Keys |-> BlankImage]
    /\ pushed = <<>>
    /\ cbWs = 0
    /\ brightness = 0
    /\ keyDown = {}
    /\ callbacks = 0
    /\ pressEdges = 0
    /\ last = [op |-> "init"]
    /\ sink = SinkIdle
    /\ hub \in HubInit
    /\ deckOpen = TRUE

\* websocket.send on transport c: the frame is written if c is open
Written(c, frame) ==
    IF c \in wsOpen THEN Append(sent, [conn |-> c, frame |-> frame]) ELSE sent

\* the process ends with an unhandled exception
Raise(e) == pc' = "done" /\ err' = e

deckVars == <<images, pushed, brightness>>
storeVars == <<state, snapshot, arrived>>
pressVars == <<cbWs, keyDown, callbacks, pressEdges>>
chanVars == <<thrown, tokenValid, authResp, conn, wsOpen, resets, bodyResets>>

\* ------------------------------------------------------------ setup_ws
\* line 74: websockets.connect(uri) succeeds
Connect ==
    /\ pc = "connect"
    /\ conn' = conn + 1
    /\ wsOpen' = wsOpen \cup {conn + 1}
    /\ authResp' = "none"
    /\ pc' = "auth_send"
    /\ last' = [op |-> "connect"]
    /\ UNCHANGED <<err, thrown, tokenValid, resets, bodyResets, idCounter, getStatesId, sent,
                   buttons, sink, hub, deckOpen>>
    /\ UNCHANGED <<deckVars, storeVars, pressVars>>

\* lines 76-77: the auth frame
SendAuth ==
    /\ pc = "auth_send"
    /\ sent' = Written(conn, AuthFrame)
    /\ pc' = "auth_recv"
    /\ last' = [op |-> "auth_send"]
    /\ UNCHANGED <<err, idCounter, getStatesId, buttons, sink, hub, deckOpen>>
    /\ UNCHANGED <<chanVars, deckVars, storeVars, pressVars>>

\* lines 80-83: the reply is received and printed, then the generator yields
\* the websocket; a yield while __aexit__ runs the generator is contextlib's
\* RuntimeError("generator didn't stop after athrow()")
RecvAuth ==
    /\ pc = "auth_recv"
    /\ authResp' = IF tokenValid THEN "auth_ok" ELSE "auth_invalid"
    /\ IF thrown THEN Raise("RuntimeError") ELSE pc' = "get_states" /\ err' = err
    /\ last' = [op |-> "auth_recv"]
    /\ UNCHANGED <<thrown, tokenValid, conn, wsOpen, resets, bodyResets, idCounter, getStatesId,
                   sent, buttons, sink, hub, deckOpen>>
    /\ UNCHANGED <<deckVars, storeVars, pressVars>>

\* the hub closes a connection whose token it rejected
HubClose ==
    /\ authResp = "auth_invalid"
    /\ conn \in wsOpen
    /\ pc # "done"
    /\ wsOpen' = wsOpen \ {conn}
    /\ last' = [op |-> "hub_close"]
    /\ UNCHANGED <<pc, err, thrown, tokenValid, authResp, conn, resets, bodyResets,
                   idCounter,
                   getStatesId, sent, buttons, sink, hub, deckOpen>>
    /\ UNCHANGED <<deckVars, storeVars, pressVars>>

\* ------------------------------------------------------------ get_states
\* variant: subscribe_events is sent right behind get_states, ahead of the reply
GetStatesSend_subscribes ==
    /\ pc = "get_states"
    /\ idCounter' = _next_id(_next_id(idCounter))
    /\ getStatesId' = _next_id(idCounter)
    /\ sent' = IF conn \in wsOpen
               THEN sent \o << [conn |-> conn, frame |-> GetStatesFrame(_next_id(idCounter))],
                               [conn |-> conn,
                                frame |-> SubscribeFrame(_next_id(_next_id(idCounter)))] >>
               ELSE sent
    /\ IF conn \in wsOpen THEN pc' = "get_states_recv" /\ err' = err
       ELSE Raise("ConnectionClosed")
    /\ last' = [op |-> "get_states_send"]
    /\ UNCHANGED <<buttons, sink, hub, deckOpen>>
    /\ UNCHANGED <<chanVars, deckVars, storeVars, pressVars>>

\* lines 153-158
GetStatesSend ==
    /\ pc = "get_states"
    /\ idCounter' = _next_id(idCounter)
    /\ getStatesId' = _next_id(idCounter)
    /\ sent' = Written(conn, GetStatesFrame(_next_id(idCounter)))
    /\ IF conn \in wsOpen THEN pc' = "get_states_recv" /\ err' = err
       ELSE Raise("ConnectionClosed")
    /\ last' = [op |-> "get_states_send"]
    /\ UNCHANGED <<buttons, sink, hub, deckOpen>>
    /\ UNCHANGED <<chanVars, deckVars, storeVars, pressVars>>

\* lines 159-161: a frame that is not a result is dropped
GetStatesSkip ==
    /\ pc = "get_states_recv"
    /\ conn \in wsOpen
    /\ authResp = "auth_ok"
    /\ last' = [op |-> "get_states_skip"]
    /\ UNCHANGED <<pc, err, idCounter, getStatesId, sent, buttons, sink, hub, deckOpen>>
    /\ UNCHANGED <<chanVars, deckVars, storeVars, pressVars>>

\* the ids a result frame read by get_states can carry: the id of the
\* get_states request, or an id this process never issued (ids start at 1)
ResultIds == {getStatesId, 0}

\* line 161: the test get_states applies to a received frame
is_result(data) == data.type = "result"

\* lines 160-166: a result frame builds the state dict; unsubscribe is sent
GetStatesRecv ==
    /\ pc = "get_states_recv"
    /\ conn \in wsOpen
    /\ authResp = "auth_ok"
    /\ \E id \in ResultIds, result \in SnapshotResults :
         LET data == ResultFrame(id, result) IN
         /\ StateDict(result) = hub.states
         /\ is_result(data)
         /\ state' = StateDict(data.result)
         /\ snapshot' = StateDict(data.result)
         /\ last' = [op |-> "get_states_recv", data |-> data]
    /\ idCounter' = _next_id(idCounter)
    /\ sent' = Written(conn, UnsubscribeFrame(_next_id(idCounter), getStatesId))
    /\ pc' = "render_all"
    /\ UNCHANGED <<err, getStatesId, arrived, buttons, sink, hub, deckOpen>>
    /\ UNCHANGED <<chanVars, deckVars, pressVars>>

\* line 160: recv on a transport the hub closed
GetStatesClosed ==
    /\ pc = "get_states_recv"
    /\ conn \notin wsOpen
    /\ Raise("ConnectionClosed")
    /\ last' = [op |-> "get_states_closed"]
    /\ UNCHANGED <<idCounter, getStatesId, sent, buttons, sink, hub, deckOpen>>
    /\ UNCHANGED <<chanVars, deckVars, storeVars, pressVars>>

\* ------------------------------------------------------------ main
\* lines 440-447: every key is rendered from the snapshot
RenderAll ==
    /\ pc = "render_all"
    /\ LET pushes == [i \in 1..Len(buttons) |-> KeyPush(buttons, state, i - 1, FALSE)] IN
         /\ pushed' = pushes
         /\ images' = SetKeyImages(images, pushes)
    /\ pc' = "set_callback"
    /\ last' = [op |-> "render_all"]
    /\ UNCHANGED <<err, idCounter, getStatesId, sent, buttons, sink, hub, deckOpen, brightness>>
    /\ UNCHANGED <<chanVars, storeVars, pressVars>>

\* line 448
SetKeyCallback ==
    /\ pc = "set_callback"
    /\ cbWs' = conn
    /\ pc' = "set_brightness"
    /\ last' = [op |-> "set_callback"]
    /\ UNCHANGED <<err, idCounter, getStatesId, sent, buttons, sink, hub, deckOpen,
                   keyDown, callbacks,
                   pressEdges>>
    /\ UNCHANGED <<chanVars, deckVars, storeVars>>

\* line 449
SetBrightness ==
    /\ pc = "set_brightness"
    /\ brightness' = 100
    /\ pc' = "subscribe"
    /\ last' = [op |-> "set_brightness"]
    /\ UNCHANGED <<err, idCounter, getStatesId, sent, buttons, sink, hub, deckOpen, images, pushed>>
    /\ UNCHANGED <<chanVars, storeVars, pressVars>>

\* subscribe_state_changes
Subscribe ==
    /\ pc = "subscribe"
    /\ idCounter' = _next_id(idCounter)
    /\ sent' = Written(conn, SubscribeFrame(_next_id(idCounter)))
    /\ pc' = "recv"
    /\ last' = [op |-> "subscribe"]
    /\ UNCHANGED <<err, getStatesId, buttons, sink, hub, deckOpen>>
    /\ UNCHANGED <<chanVars, deckVars, storeVars, pressVars>>

\* ------------------------------------------------------------ streaming
\* the frames the hub may send once main is in handle_state_changes
OtherFrames == {OtherEventFrame, ResultFrame(idCounter, None)}

\* main is suspended in an await: the event loop may run a key callback
Suspended == pc \in {"recv", "sleep", "connect", "auth_recv"}

\* variant: a key that is held down is re-rendered in its pressed form
UpdateState_keeps_pressed(data) ==
    IF is_state_changed(data)
    THEN LET event_data == data.event.data
             eid == event_data.entity_id
             new == StoreNewState(state, eid, event_data.new_state)
             keys == _keys(eid, buttons)
             pushes == [i \in 1..Len(keys) |->
                          KeyPush(buttons, new, keys[i], keys[i] \in keyDown)]
         IN /\ state' = new
            /\ arrived' = Append(arrived, event_data)
            /\ pushed' = pushes
            /\ images' = SetKeyImages(images, pushes)
    ELSE /\ pushed' = <<>>
         /\ UNCHANGED <<state, arrived, images>>

\* variant: a frame that is no state_changed event re-renders every key
UpdateState_rerender_all(data) ==
    IF is_state_changed(data)
    THEN LET event_data == data.event.data
             eid == event_data.entity_id
             new == StoreNewState(state, eid, event_data.new_state)
             keys == _keys(eid, buttons)
             pushes == [i \in 1..Len(keys) |-> KeyPush(buttons, new, keys[i], FALSE)]
         IN /\ state' = new
            /\ arrived' = Append(arrived, event_data)
            /\ pushed' = pushes
            /\ images' = SetKeyImages(images, pushes)
    ELSE LET pushes == [i \in 1..Len(buttons) |-> KeyPush(buttons, state, i - 1, FALSE)]
         IN /\ pushed' = pushes
            /\ images' = SetKeyImages(images, pushes)
            /\ UNCHANGED <<state, arrived>>

\* _update_state
UpdateState(data) ==
    IF is_state_changed(data)
    THEN LET event_data == data.event.data
             eid == event_data.entity_id
             new == StoreNewState(state, eid, event_data.new_state)
             keys == _keys(eid, buttons)
             pushes == [i \in 1..Len(keys) |-> KeyPush(buttons, new, keys[i], FALSE)]
         IN /\ state' = new
            /\ arrived' = Append(arrived, event_data)
            /\ pushed' = pushes
            /\ images' = SetKeyImages(images, pushes)
    ELSE /\ pushed' = <<>>
         /\ UNCHANGED <<state, arrived, images>>

\* handle_state_changes: one turn of the loop, on a state_changed event. The
\* hub's change of the entity, the frame it sends for it to the subscribed
\* connection and the turn that reads the frame are one step, so that no
\* frame is in flight in any state
HandleStateChanged ==
    /\ pc = "recv"
    /\ conn \in wsOpen
    /\ Len(arrived) < MaxEvents
    /\ \E data \in StateChangedFrames :
         /\ hub' = [hub EXCEPT !.states = DictSet(hub.states, data.event.data.entity_id,
                                                  data.event.data.new_state)]
         /\ UpdateState(data)
         /\ last' = [op |-> "event", data |-> data]
    /\ UNCHANGED <<pc, err, idCounter, getStatesId, sent, snapshot, buttons, sink, deckOpen,
                   brightness>>
    /\ UNCHANGED <<chanVars, pressVars>>

\* handle_state_changes: one turn of the loop, on any other frame
HandleOtherFrame ==
    /\ pc = "recv"
    /\ conn \in wsOpen
    /\ \E data \in OtherFrames :
         /\ UpdateState(data)
         /\ last' = [op |-> "other", data |-> data]
    /\ UNCHANGED <<pc, err, idCounter, getStatesId, sent, snapshot, buttons, sink, hub,
                   deckOpen, brightness>>
    /\ UNCHANGED <<chanVars, pressVars>>

\* variant: setup_ws retries after any exception
retried_any(e) == TRUE

\* line 84, `except ConnectionResetError`: the exceptions setup_ws retries after
retried(e) == e = "ConnectionResetError"

\* handle_state_changes: one turn of the loop, on a frame that is not JSON.
\* json.loads (line 111) raises; __aexit__ throws the error into setup_ws at
\* line 83, line 74's async with closes the transport, and line 84 decides
\* whether it is retried
HandleMalformed ==
    /\ pc = "recv"
    /\ conn \in wsOpen
    /\ wsOpen' = wsOpen \ {conn}
    /\ IF retried("JSONDecodeError")
       THEN thrown' = TRUE /\ pc' = "sleep" /\ err' = err
       ELSE Raise("JSONDecodeError") /\ thrown' = thrown
    /\ last' = [op |-> "malformed"]
    /\ UNCHANGED <<tokenValid, authResp, conn, resets, bodyResets, idCounter, getStatesId,
                   sent, buttons, sink, hub, deckOpen>>
    /\ UNCHANGED <<deckVars, storeVars, pressVars>>

\* asyncio.run (line 463) on an interrupt while main is in its receive loop:
\* main is cancelled at its await, __aexit__ throws the cancellation into
\* setup_ws at line 83, line 74's async with closes the transport, line 84
\* does not catch it. No line of the program closes the deck
Interrupt ==
    /\ pc = "recv"
    /\ conn \in wsOpen
    /\ wsOpen' = wsOpen \ {conn}
    /\ IF retried("CancelledError")
       THEN thrown' = TRUE /\ pc' = "sleep" /\ err' = err
       ELSE Raise("KeyboardInterrupt") /\ thrown' = thrown
    /\ last' = [op |-> "interrupt"]
    /\ UNCHANGED <<tokenValid, authResp, conn, resets, bodyResets, idCounter, getStatesId,
                   sent, buttons, sink, hub, deckOpen>>
    /\ UNCHANGED <<deckVars, storeVars, pressVars>>

\* key_change_callback lines 325-340: what the callback does, in order
callback_effects(button, key_pressed) ==
    <<"update_key_image">> \o
    (IF should_call(button, key_pressed) THEN <<"call_service">> ELSE <<>>)

\* key_change_callback, run by the event loop for a key that changed
KeyCallback(key, key_pressed) ==
    /\ cbWs # 0
    /\ Suspended
    /\ callbacks < MaxCallbacks
    /\ key_pressed = (key \notin keyDown)
    /\ LET button == ButtonAt(buttons, key)
           push == KeyPush(buttons, state, key, key_pressed)
       IN /\ pushed' = <<push>>
          /\ images' = SetKeyImages(images, <<push>>)
          /\ IF should_call(button, key_pressed) /\ Len(SplitAll(button.service)) = 2
             THEN /\ idCounter' = _next_id(idCounter)
                  /\ sent' = Written(cbWs, CallServiceFrame(_next_id(idCounter), button.service,
                                                           call_data(button)))
             ELSE UNCHANGED <<idCounter, sent>>
          /\ pressEdges' = IF key_pressed /\ button.service # NoId
                           THEN pressEdges + 1 ELSE pressEdges
    /\ keyDown' = IF key_pressed THEN keyDown \cup {key} ELSE keyDown \ {key}
    /\ callbacks' = callbacks + 1
    /\ last' = [op |-> "callback", key |-> key, key_pressed |-> key_pressed,
                effects |-> callback_effects(ButtonAt(buttons, key), key_pressed)]
    /\ UNCHANGED <<pc, err, getStatesId, buttons, sink, hub, deckOpen, brightness, cbWs>>
    /\ UNCHANGED <<chanVars, storeVars>>

KeyChange == \E key \in Keys, key_pressed \in BOOLEAN : KeyCallback(key, key_pressed)

\* ------------------------------------------------------------ resets
\* line 74 raises ConnectionResetError, line 84 catches it
ConnectReset ==
    /\ pc = "connect"
    /\ resets < MaxResets
    /\ resets' = resets + 1
    /\ pc' = "sleep"
    /\ last' = [op |-> "connect_reset"]
    /\ UNCHANGED <<err, thrown, tokenValid, authResp, conn, wsOpen, bodyResets,
                   idCounter, getStatesId, sent, buttons, sink, hub, deckOpen>>
    /\ UNCHANGED <<deckVars, storeVars, pressVars>>

\* line 87, then the loop of line 72
Sleep ==
    /\ pc = "sleep"
    /\ pc' = "connect"
    /\ last' = [op |-> "sleep"]
    /\ UNCHANGED <<err, idCounter, getStatesId, sent, buttons, sink, hub, deckOpen>>
    /\ UNCHANGED <<chanVars, deckVars, storeVars, pressVars>>

\* line 111 raises ConnectionResetError in the body of main's async with:
\* __aexit__ throws it into setup_ws at line 83, line 74's async with closes
\* the transport, line 84 catches
RecvReset ==
    /\ pc = "recv"
    /\ conn \in wsOpen
    /\ resets < MaxResets
    /\ resets' = resets + 1
    /\ bodyResets' = bodyResets + 1
    /\ wsOpen' = wsOpen \ {conn}
    /\ thrown' = TRUE
    /\ pc' = "sleep"
    /\ last' = [op |-> "recv_reset"]
    /\ UNCHANGED <<err, tokenValid, authResp, conn, idCounter, getStatesId, sent, buttons,
                   sink, hub, deckOpen>>
    /\ UNCHANGED <<deckVars, storeVars, pressVars>>

\* ------------------------------------------------------------ specifications
Startup ==
    \/ Connect \/ SendAuth \/ RecvAuth \/ HubClose
    \/ GetStatesSend \/ GetStatesSkip \/ GetStatesRecv \/ GetStatesClosed
    \/ RenderAll \/ SetKeyCallback \/ SetBrightness \/ Subscribe

Next ==
    \/ Startup
    \/ HandleStateChanged \/ HandleOtherFrame \/ HandleMalformed
    \/ KeyChange
    \/ Interrupt

Spec == Init /\ [][Next]_vars

NextReset == Next \/ ConnectReset \/ Sleep \/ RecvReset

SpecReset == Init /\ [][NextReset]_vars

\* ------------------------------------------------------------ the hub between snapshot and subscription
\* number of entity changes the hub makes that no connection is told of
MaxMissed == 1

\* main lines 439-450: the hub has answered get_states (line 439) and main
\* has not yet written subscribe_events (line 450); an entity changes on the
\* hub, and the hub, having no subscription on this connection, sends nothing
HubChange ==
    /\ pc \in {"render_all", "set_callback", "set_brightness", "subscribe"}
    /\ hub.missed < MaxMissed
    /\ \E e \in EventEntities : \E n \in NewStates(e) :
         /\ ~(e \in DOMAIN hub.states /\ hub.states[e] = n)
         /\ hub' = [states |-> DictSet(hub.states, e, n), missed |-> hub.missed + 1]
    /\ last' = [op |-> "hub_change"]
    /\ UNCHANGED <<pc, err, idCounter, getStatesId, sent, buttons, sink, deckOpen>>
    /\ UNCHANGED <<chanVars, deckVars, storeVars, pressVars>>

NextHub == Next \/ HubChange

SpecHub == Init /\ [][NextHub]_vars

\* ------------------------------------------------------------ update_key_image alone
\* the button configurations and state dicts update_key_image is applied to
ResolveEntities == {LightKitchen, SwitchFan, ScriptFoo}

ButtonSet ==
    { Button(e, s, {}, t, c, i, m) :
        e \in ResolveEntities \cup {NoId},
        s \in {NoId, <<"light", "toggle">>, <<"script", "foo">>},
        t \in {"Lamp", StateTemplate},
        c \in {None, "yellow", ColorTemplate},
        i \in {None, "icon.png"},
        m \in {None, "home"} }

StoreSet ==
    UNION { { [e \in D |-> [entity_id |-> e, state |-> f[e]]] : f \in [D -> {"on", "off"}] } :
            D \in SUBSET ResolveEntities }

InitResolve ==
    /\ pc = "resolve"
    /\ err = "none"
    /\ thrown = FALSE
    /\ tokenValid = TRUE
    /\ authResp = "none"
    /\ conn = 0
    /\ wsOpen = {}
    /\ resets = 0
    /\ bodyResets = 0
    /\ idCounter = 0
    /\ getStatesId = 0
    /\ sent = <<>>
    /\ state \in StoreSet
    /\ snapshot = state
    /\ arrived = <<>>
    /\ buttons \in { <<b>> : b \in ButtonSet }
    /\ images = [k \in {0} |-> BlankImage]
    /\ pushed = <<>>
    /\ cbWs = 0
    /\ brightness = 0
    /\ keyDown = {}
    /\ callbacks = 0
    /\ pressEdges = 0
    /\ last = [op |-> "init"]
    /\ sink = SinkIdle
    /\ hub = [states |-> state, missed |-> 0]
    /\ deckOpen = TRUE

\* update_key_image(deck, key=key, button=buttons[key], state=state, key_pressed=...)
UpdateKeyImage(key, key_pressed) ==
    /\ pc = "resolve"
    /\ LET push == KeyPush(buttons, state, key, key_pressed) IN
         /\ pushed' = <<push>>
         /\ images' = SetKeyImages(images, <<push>>)
    /\ last' = [op |-> "update_key_image", key |-> key, key_pressed |-> key_pressed]
    /\ UNCHANGED <<pc, err, idCounter, getStatesId, sent, buttons, sink, hub, deckOpen, brightness>>
    /\ UNCHANGED <<chanVars, storeVars, pressVars>>

NextResolve == \E key_pressed \in BOOLEAN : UpdateKeyImage(0, key_pressed)

SpecResolve == InitResolve /\ [][NextResolve]_vars

\* ------------------------------------------------------------ update_key_image, page by page
\* The receive loop and the key callback call update_key_image for keys of
\* the grid while the state dict holds a record of light.x. The callback
\* coroutine runs on main's event loop (set_key_callback_async, line 448), so
\* the schedules of the program are among the interleavings taken here, where
\* the two callers are free to alternate between any two steps.
PushKeys == {0, 1}

PushStores == { StateDict(<<SnapshotRecord(LightX, s)>>) : s \in {"on", "off"} }

InitPush ==
    /\ pc = "push"
    /\ err = "none"
    /\ thrown = FALSE
    /\ tokenValid = TRUE
    /\ authResp = "auth_ok"
    /\ conn = 1
    /\ wsOpen = {1}
    /\ resets = 0
    /\ bodyResets = 0
    /\ idCounter = 0
    /\ getStatesId = 0
    /\ sent = <<>>
    /\ state \in PushStores
    /\ snapshot = state
    /\ arrived = <<>>
    /\ buttons = Config
    /\ images = [k \in Keys |-> BlankImage]
    /\ pushed = <<>>
    /\ cbWs = 1
    /\ brightness = 100
    /\ keyDown = {}
    /\ callbacks = 0
    /\ pressEdges = 0
    /\ last = [op |-> "init"]
    /\ sink = SinkIdle
    /\ hub = [states |-> state, missed |-> 0]
    /\ deckOpen = TRUE

\* the image an activity is pushing and the key it pushes it to
PushImage(a) == render_key_image(sink.act[a].push.args)
PushKey(a) == sink.act[a].push.key

\* lines 246-284: update_key_image is called and renders its image; the
\* receive loop always passes key_pressed=False (line 140)
RenderImage(a, key, key_pressed) ==
    /\ pc = "push"
    /\ sink.act[a].at = "idle"
    /\ sink.act[a].calls < MaxPushes
    /\ a = "loop" => ~key_pressed
    /\ sink' = [sink EXCEPT !.act[a] =
                  [at |-> "enter", page |-> 1, calls |-> sink.act[a].calls + 1,
                   push |-> KeyPush(buttons, state, key, key_pressed)]]
    /\ UNCHANGED mainVars

\* variant: the image is written without taking the deck's update lock
DeckEnter_unlocked(a) ==
    /\ pc = "push"
    /\ sink.act[a].at = "enter"
    /\ sink' = [sink EXCEPT !.lock = a,
                            !.act[a].at = "write",
                            !.entered[PushKey(a)] = PushImage(a)]
    /\ UNCHANGED mainVars

\* line 285, `with deck:` entered: the update lock is taken once it is free
DeckEnter(a) ==
    /\ pc = "push"
    /\ sink.act[a].at = "enter"
    /\ sink.lock = "free"
    /\ sink' = [sink EXCEPT !.lock = a,
                            !.act[a].at = "write",
                            !.entered[PushKey(a)] = PushImage(a)]
    /\ UNCHANGED mainVars

\* line 286, deck.set_key_image(key, image): the next report of the image
SetKeyImagePage(a) ==
    /\ pc = "push"
    /\ sink.act[a].at = "write"
    /\ LET p == sink.act[a].page IN
       sink' = [sink EXCEPT !.wire[PushKey(a)][p] = PushImage(a),
                            !.act[a].page = IF p = Pages THEN 1 ELSE p + 1,
                            !.act[a].at = IF p = Pages THEN "exit" ELSE "write"]
    /\ UNCHANGED mainVars

\* line 286, `with deck:` left: the update lock is released
DeckExit(a) ==
    /\ pc = "push"
    /\ sink.act[a].at = "exit"
    /\ sink' = [sink EXCEPT !.lock = "free", !.act[a].at = "idle"]
    /\ UNCHANGED mainVars

NextPush ==
    \E a \in Activities :
        \/ \E key \in PushKeys, key_pressed \in BOOLEAN : RenderImage(a, key, key_pressed)
        \/ DeckEnter(a)
        \/ SetKeyImagePage(a)
        \/ DeckExit(a)

SpecPush == InitPush /\ [][NextPush]_vars

\* ------------------------------------------------------------ properties
AllEntities == EventEntities \cup ResolveEntities

\* the events of a sequence of event data that name an entity
EventsNaming(events, eid) == SelectSeq(events, LAMBDA ev : ev.entity_id = eid)

CallServiceCount == Cardinality({ i \in 1..Len(sent) : sent[i].frame.type = "call_service" })

\* C1: last-write-wins. After any sequence of processed state_changed events,
\* state[E] is the new_state payload of the last event naming E, as a whole
\* record, and an entity no event named has its snapshot entry (or none).
C1_LastWriteWins ==
    \A eid \in AllEntities :
        LET evs == EventsNaming(arrived, eid) IN
        IF evs # <<>>
        THEN eid \in DOMAIN state /\ state[eid] = evs[Len(evs)].new_state
        ELSE /\ (eid \in DOMAIN state) = (eid \in DOMAIN snapshot)
             /\ eid \in DOMAIN snapshot => state[eid] = snapshot[eid]

\* C1 witness: two events named light.x, the second with another payload than
\* the first, and switch.fan, named by none, is in the snapshot
C1_Witness ==
    /\ Len(arrived) = 2
    /\ arrived[1].entity_id = LightX
    /\ arrived[2].entity_id = LightX
    /\ arrived[1].new_state # arrived[2].new_state
    /\ LightX \in DOMAIN snapshot
    /\ SwitchFan \in DOMAIN snapshot

\* C2: transparent reconnection. A connection reset raised in the body of
\* main's async with (send/receive after the channel was handed over) ends in
\* no exception for the caller, and main is back in its receive with one more
\* authentication per reset.
C2_TransparentReconnect ==
    bodyResets >= 1 =>
        /\ err = "none"
        /\ pc = "recv" =>
             Cardinality({ i \in 1..Len(sent) : sent[i].frame.type = "auth" }) >= 1 + bodyResets

\* C3: affected keys only. The step that processes a state_changed event for
\* entity E pushes one image, with key_pressed false and rendered from the new
\* state, to each key bound to E, in key order, pushes to no other key, and
\* leaves the image of every other key as it was.
C3_AffectedKeysOnly ==
    [][ last'.op = "event" =>
          LET eid == last'.data.event.data.entity_id
              bound == { k \in Keys : ButtonAt(buttons, k).entity_id = eid }
          IN /\ Len(pushed') = Cardinality(bound)
             /\ \A i \in 1..Len(pushed') :
                  /\ pushed'[i].key \in bound
                  /\ pushed'[i].key_pressed = FALSE
                  /\ i > 1 => pushed'[i - 1].key < pushed'[i].key
                  /\ pushed'[i].args = render_args(ButtonAt(buttons, pushed'[i].key), state', FALSE)
                  /\ images'[pushed'[i].key] = render_key_image(pushed'[i].args)
             /\ \A k \in Keys \ bound : images'[k] = images[k]
      ]_vars

\* C3 witness: an event for light.x, to which keys 0 and 1 are bound, was
\* processed and pushed two images while keys 2 and 3 show what they showed
C3_Witness ==
    /\ last.op = "event"
    /\ last.data.event.data.entity_id = LightX
    /\ Len(pushed) = 2
    /\ pushed[1].key = 0
    /\ pushed[2].key = 1

\* C4: press edge only. The number of call_service frames sent equals the
\* number of key callbacks with pressed = true on a button that has a
\* service: a release sends none, a press without service sends none, a press
\* with service sends one.
C4_PressEdgeOnly == CallServiceCount = pressEdges

\* C4 witness: key 0 (with a service) was pressed and released, one frame
C4_Witness ==
    /\ last.op = "callback"
    /\ last.key = 0
    /\ last.key_pressed = FALSE
    /\ pressEdges = 1
    /\ CallServiceCount = 1

\* C5: action parameters. The call_service frame of a press carries the
\* configured service_data if it is not empty, else the button's entity_id as
\* its only entry if the button has one, else nothing; the configuration is
\* never modified.
C5_ServiceData ==
    /\ buttons = Config
    /\ (last.op = "callback" /\ last.key_pressed
          /\ ButtonAt(buttons, last.key).service # NoId) =>
         LET button == ButtonAt(Config, last.key)
             frame == sent[Len(sent)].frame
         IN /\ frame.type = "call_service"
            /\ frame.service_data =
                 IF button.service_data # {} THEN button.service_data
                 ELSE IF button.entity_id # NoId
                      THEN {<<"entity_id", button.entity_id>>}
                      ELSE {}

\* C5 witness: key 2, with configured service_data and an entity_id, was
\* pressed after key 0, whose frame carries the implicit entity_id
C5_Witness ==
    /\ last.op = "callback"
    /\ last.key = 2
    /\ last.key_pressed
    /\ sent[Len(sent)].frame.service_data = {<<"entity_id", <<"switch", "other">>>>}
    /\ \E i \in 1..Len(sent) :
         /\ sent[i].frame.type = "call_service"
         /\ sent[i].frame.service_data = {<<"entity_id", LightX>>}

\* C6: pressed override. update_key_image with key_pressed = true renders
\* with text colour "green", and with the text and the icon of key_pressed =
\* false, for every button and state dict.
C6_PressedOverride ==
    \A i \in 1..Len(pushed) :
        pushed[i].key_pressed =>
            LET normal == render_args(ButtonAt(buttons, pushed[i].key), state, FALSE) IN
            /\ pushed[i].args.text_color = "green"
            /\ pushed[i].args.label_text = normal.label_text
            /\ pushed[i].args.icon_mdi = normal.icon_mdi
            /\ pushed[i].args.icon_filename = normal.icon_filename

\* C6 witness: a pressed render of a button with a text_color template whose
\* entity is "on" in the state dict
C6_Witness ==
    /\ Len(pushed) = 1
    /\ pushed[1].key_pressed
    /\ buttons[1].text_color = ColorTemplate
    /\ has_entity(buttons[1], state)
    /\ state[buttons[1].entity_id].state = "on"

\* C7: absent entity. A button whose entity_id is unset or not in the state
\* dict renders its text field as it is, the configured text_color or else
\* "white", and only the configured icon and icon_mdi; the arguments are the
\* same for every state dict without the entity.
C7_AbsentEntity ==
    \A i \in 1..Len(pushed) :
        LET button == ButtonAt(buttons, pushed[i].key)
            args == pushed[i].args
        IN ~has_entity(button, state) =>
            /\ args.label_text = button.text
            /\ ~pushed[i].key_pressed =>
                 args.text_color = IF button.text_color # None THEN button.text_color
                                   ELSE "white"
            /\ args.icon_mdi = button.icon_mdi
            /\ args.icon_filename = button.icon
            /\ \A other \in StoreSet :
                 ~has_entity(button, other) =>
                     render_args(button, other, pushed[i].key_pressed) = args

\* C7 witness: a button bound to light.kitchen, with a template text, a
\* light service and no icon, rendered while the state dict holds other
\* entities only
C7_Witness ==
    /\ Len(pushed) = 1
    /\ ~pushed[1].key_pressed
    /\ buttons[1].entity_id = LightKitchen
    /\ buttons[1].text = StateTemplate
    /\ buttons[1].service = <<"light", "toggle">>
    /\ buttons[1].icon = None
    /\ buttons[1].icon_mdi = None
    /\ DOMAIN state = {SwitchFan, ScriptFoo}

\* the built-in default icon of an entity's domain
EntityDomainIcon(eid) ==
    IF SplitFirst(eid) \in DOMAIN DEFAULT_MDI_ICONS
    THEN DEFAULT_MDI_ICONS[SplitFirst(eid)] ELSE None

\* C8: domain-default icon. For a button whose entity is in the state dict:
\* with neither icon nor icon_mdi configured the icon is the default of the
\* entity's domain (none if the table has no entry), a configured icon_mdi is
\* used, and with only a static icon no default is applied.
C8_DomainDefaultIcon ==
    \A i \in 1..Len(pushed) :
        LET button == ButtonAt(buttons, pushed[i].key)
            args == pushed[i].args
        IN has_entity(button, state) =>
            args.icon_mdi =
                IF button.icon_mdi # None THEN button.icon_mdi
                ELSE IF button.icon = None THEN EntityDomainIcon(button.entity_id)
                ELSE None

\* C9: state-driven colour and text. A render with key_pressed = false of a
\* button whose entity is in the state dict shows the text template evaluated
\* on the entity's record, in the evaluated text_color template if one is
\* configured, else "orangered" exactly when the record's state is "on", else
\* "white".
C9_StateDriven ==
    \A i \in 1..Len(pushed) :
        LET button == ButtonAt(buttons, pushed[i].key)
            args == pushed[i].args
        IN (~pushed[i].key_pressed /\ has_entity(button, state)) =>
            LET record == state[button.entity_id] IN
            /\ args.label_text = _render_jinja(button.text, record)
            /\ args.text_color =
                 IF button.text_color # None THEN _render_jinja(button.text_color, record)
                 ELSE IF record.state = "on" THEN "orangered" ELSE "white"
            /\ images[pushed[i].key].text = args.label_text
            /\ images[pushed[i].key].fill = args.text_color

\* C9 witness: the snapshot had light.x off, an event set it on, and key 0
\* (text template {{ state.state }}, no text_color) shows "on" in orangered
C9_Witness ==
    /\ LightX \in DOMAIN snapshot
    /\ snapshot[LightX].state = "off"
    /\ last.op = "event"
    /\ last.data.event.data.entity_id = LightX
    /\ last.data.event.data.new_state.state = "on"
    /\ pushed[1].key = 0
    /\ images[0].text = "on"
    /\ images[0].fill = "orangered"

C11_UnrelatedIgnored ==
    [][ last'.op = "other" =>
          /\ ~is_state_changed(last'.data)
          /\ state' = state
          /\ images' = images
          /\ pushed' = <<>>
          /\ sent' = sent
          /\ idCounter' = idCounter
          /\ err' = "none"
          /\ pc' = "recv"
      ]_vars

\* C11 witness: the acknowledgement of a request was received after an event
\* had filled the state dict and a key had been pressed
C11_Witness ==
    /\ last.op = "other"
    /\ last.data.type = "result"
    /\ Len(arrived) >= 1
    /\ callbacks >= 1
    /\ pc = "recv"

\* the correlation ids of the command frames written, in the order written
SentIds ==
    LET cmds == SelectSeq(sent, LAMBDA w : w.frame.type # "auth")
    IN [i \in 1..Len(cmds) |-> cmds[i].frame.id]

\* the ids written so far are positive, at most the counter, strictly
\* increasing in the order written, and start at 1
IdsIncrease ==
    /\ \A i \in 1..Len(SentIds) : SentIds[i] >= 1 /\ SentIds[i] <= idCounter
    /\ \A i, j \in 1..Len(SentIds) : i < j => SentIds[i] < SentIds[j]
    /\ getStatesId # 0 => (getStatesId = 1 /\ idCounter >= 1)
    /\ Len(SentIds) >= 1 => SentIds[1] = 1

\* no step lowers the counter, and a step that builds a command frame raises
\* it by one and puts the new value in the frame
CounterMonotone ==
    /\ idCounter' >= idCounter
    /\ idCounter' <= idCounter + 1
    /\ sent' # sent /\ sent'[Len(sent')].frame.type # "auth"
         => /\ idCounter' = idCounter + 1
            /\ sent'[Len(sent')].frame.id = idCounter'

\* C12: correlation ids. The ids carried by the get_states,
\* unsubscribe_events, subscribe_events and call_service frames are pairwise
\* distinct and strictly increasing in the order the frames are built, the
\* first one is 1, and the counter behind them never goes back, reconnects
\* included.
C12_CorrelationIds == []IdsIncrease /\ [][CounterMonotone]_vars

\* C12 witness: after a reset while connecting, all four kinds of command
\* frame have been written, the call_service ones after key presses
C12_Witness ==
    /\ resets >= 1
    /\ \E i \in 1..Len(sent) : sent[i].frame.type = "get_states"
    /\ \E i \in 1..Len(sent) : sent[i].frame.type = "unsubscribe_events"
    /\ \E i \in 1..Len(sent) : sent[i].frame.type = "subscribe_events"
    /\ \E i \in 1..Len(sent) : sent[i].frame.type = "call_service"
    /\ Len(SentIds) >= 5

\* C13: snapshot reply correlation. get_states completes, and the state dict
\* is built, only from a result frame whose id is the id get_states sent; the
\* dict then holds one record per entity_id of that reply.
C13_ReplyCorrelated ==
    last.op = "get_states_recv" =>
        /\ last.data.type = "result"
        /\ last.data.id = getStatesId
        /\ state = StateDict(last.data.result)

\* the place of each step of main in the startup sequence
StartupRank(p) ==
    CASE p = "connect" -> 1
      [] p = "auth_send" -> 2
      [] p = "auth_recv" -> 3
      [] p = "get_states" -> 4
      [] p = "get_states_recv" -> 5
      [] p = "render_all" -> 6
      [] p = "set_callback" -> 7
      [] p = "set_brightness" -> 8
      [] p = "subscribe" -> 9
      [] p = "recv" -> 10
      [] OTHER -> 11

\* every key has been rendered at least once
GridRendered == \A k \in Keys : images[k] # BlankImage

\* the frames written come in the startup order: auth, get_states,
\* unsubscribe_events naming the get_states id under an id of its own,
\* subscribe_events, and after those only call_service frames
FramesInStartupOrder ==
    \A i \in 1..Len(sent) :
        LET f == sent[i].frame IN
        /\ i = 1 => f.type = "auth"
        /\ i = 2 => f.type = "get_states" /\ f.id = getStatesId
        /\ i = 3 => /\ f.type = "unsubscribe_events"
                    /\ f.subscription = getStatesId
                    /\ f.id # getStatesId
        /\ i = 4 => f.type = "subscribe_events"
        /\ i > 4 => f.type = "call_service"

\* what has been done implies that everything before it has been done
StartupOrder ==
    /\ FramesInStartupOrder
    /\ StartupRank(pc) \in 6..10 => Len(sent) >= 3
    /\ GridRendered => Len(sent) >= 3
    /\ cbWs # 0 => GridRendered
    /\ brightness # 0 => cbWs # 0
    /\ Len(sent) >= 4 => brightness = 100
    /\ pc = "recv" => Len(sent) >= 4
    /\ callbacks > 0 => GridRendered /\ cbWs # 0
    /\ arrived # <<>> => GridRendered /\ Len(sent) >= 4
    /\ state # snapshot => GridRendered

\* main moves forward through the sequence only, so no step is taken twice,
\* and the step that leaves the full-grid render has pushed every key once,
\* in key order, unpressed
StartupStep ==
    /\ pc' # pc => StartupRank(pc') > StartupRank(pc)
    /\ (pc = "render_all" /\ pc' = "set_callback") =>
          /\ Len(pushed') = Len(buttons)
          /\ \A i \in 1..Len(pushed') :
                pushed'[i] = KeyPush(buttons, state, i - 1, FALSE)
    /\ (GridRendered' /\ ~GridRendered) => pc = "render_all"
    /\ (cbWs' # cbWs) => pc = "set_callback"
    /\ (brightness' # brightness) => pc = "set_brightness"

\* C14: startup ordering. From construction to Ready the steps come in this
\* order, each at most once: authenticate; send get_states; receive its reply;
\* send unsubscribe_events (subscription = the get_states id, id fresh); render
\* every key once unpressed; register the press callback; set brightness; send
\* subscribe_events; enter the receive loop. No key press is handled and no
\* event updates the state dict before the full-grid render has finished, and
\* subscribe_events is not sent before the snapshot reply was received.
C14_StartupOrdering == []StartupOrder /\ [][StartupStep]_vars

\* C14 witness: the whole sequence has run and main is in its receive loop,
\* with an event and a key press handled since
C14_Witness ==
    /\ pc = "recv"
    /\ Len(sent) >= 4
    /\ sent[4].frame.type = "subscribe_events"
    /\ brightness = 100
    /\ GridRendered
    /\ callbacks > 0
    /\ arrived # <<>>

\* an activity is between entering and leaving `with deck:`
InSection(a) == sink.act[a].at \in {"write", "exit"}

\* the image a key shows is whole: all its pages come from one image
Whole(k) == \A p \in 1..Pages : sink.wire[k][p] = sink.entered[k]

\* C15: single-writer device sink. The push of the receive loop and the push
\* of the press/release callback are never both inside the section; while one
\* writes a key, the pages it has written are its own and the others are
\* those of the whole image shown before; and once nobody is writing a key,
\* the key shows the whole image of the push that entered the section last.
C15_SingleWriter ==
    /\ ~(InSection("loop") /\ InSection("callback"))
    /\ \A a \in Activities : InSection(a) <=> sink.lock = a
    /\ \A k \in Keys :
         IF \E a \in Activities : InSection(a) /\ PushKey(a) = k /\ sink.act[a].at = "write"
         THEN \E a \in Activities :
                /\ sink.lock = a
                /\ \A p \in 1..Pages :
                     p < sink.act[a].page => sink.wire[k][p] = PushImage(a)
                /\ \A p, q \in 1..Pages :
                     (p >= sink.act[a].page /\ q >= sink.act[a].page)
                        => sink.wire[k][p] = sink.wire[k][q]
         ELSE Whole(k)

\* C15 witness: the callback has rendered the pressed image of a key and
\* waits at the section while the receive loop, inside it, has written part
\* of a different image for the same key
C15_Witness ==
    /\ sink.act["callback"].at = "enter"
    /\ sink.act["loop"].at = "write"
    /\ sink.act["loop"].page > 1
    /\ PushKey("loop") = PushKey("callback")
    /\ PushImage("loop") # PushImage("callback")
    /\ sink.act["loop"].calls = MaxPushes

\* the turn of the receive loop that gets an undecodable frame ends the
\* process with the decoding error and the transport closed, changes neither
\* the state dict nor any key image, writes no frame, and starts no backoff,
\* reconnect or re-authentication
MalformedStep ==
    last'.op = "malformed" =>
        /\ pc' = "done"
        /\ err' = "JSONDecodeError"
        /\ conn \notin wsOpen'
        /\ UNCHANGED <<state, arrived, images, pushed, sent, idCounter>>
        /\ UNCHANGED <<conn, resets, bodyResets, thrown, authResp>>

\* C16: a malformed frame is fatal. An undecodable frame in the receive loop
\* is not skipped: the error ends the controller, the state dict is unchanged
\* by that frame, no image is pushed, nothing is processed afterwards, and
\* the channel does not treat it as a connection drop.
C16_MalformedFatal ==
    /\ [][MalformedStep]_vars
    /\ [][err = "JSONDecodeError" => UNCHANGED vars]_vars
    /\ [](err = "JSONDecodeError" => pc = "done")

\* C16 witness: the process was ended by an undecodable frame after it had
\* processed an event and a key press
C16_Witness ==
    /\ err = "JSONDecodeError"
    /\ last.op = "malformed"
    /\ arrived # <<>>
    /\ callbacks > 0
    /\ conn \notin wsOpen

\* C17: the state dict is kept current with the hub. In Ready, every frame
\* the hub sent having been processed, state[E] is the hub's current state of
\* E for every entity E, changes the hub made between answering get_states
\* and receiving subscribe_events included.
C17_CurrentWithHub ==
    pc = "recv" => state = hub.states

\* C18: clean teardown. When an interrupt ends the process in Ready, the
\* transport has been closed and the deck's device handle has been released.
C18_CleanTeardown ==
    err = "KeyboardInterrupt" => (conn \notin wsOpen /\ ~deckOpen)

\* the image of a key as update_key_image renders it unpressed from the
\* state dict of the moment
IdleImage(k) == render_key_image(render_args(ButtonAt(buttons, k), state, FALSE))

\* C19: display consistency for idle keys. Once the full-grid render of
\* startup is done, every key that is not held down shows the image resolved
\* from its button, the current state dict and pressed = false; a release
\* re-renders the key from the state dict of the time of the release.
C19_IdleKeysCurrent ==
    GridRendered => \A k \in Keys : k \notin keyDown => images[k] = IdleImage(k)

\* C19 witness: a key bound to light.x was released after events had moved
\* light.x away from its snapshot value, and shows another image than the
\* one of the startup render
C19_Witness ==
    /\ last.op = "callback"
    /\ ~last.key_pressed
    /\ ButtonAt(buttons, last.key).entity_id = LightX
    /\ LightX \in DOMAIN snapshot
    /\ state[LightX] # snapshot[LightX]
    /\ images[last.key] # render_key_image(render_args(ButtonAt(buttons, last.key),
                                                        snapshot, FALSE))

\* the keys bound to the entity an event frame names
BoundKeys(data) ==
    { k \in Keys : ButtonAt(buttons, k).entity_id = data.event.data.entity_id }

\* a press pushes the key in its pressed form, and does so before the
\* callback goes on to call_service
PressOrder ==
    (last.op = "callback" /\ last.key_pressed) =>
        /\ last.effects[1] = "update_key_image"
        /\ pushed = <<KeyPush(buttons, state, last.key, TRUE)>>
        /\ images[last.key].fill = "green"
        /\ \A i \in 1..Len(last.effects) :
              last.effects[i] = "call_service" => i > 1

\* an event renders every key bound to its entity unpressed, held or not, so
\* a held key bound to it shows the unpressed image of the new state; and a
\* held key that shows its unpressed image keeps showing it (of the state
\* dict of the moment) as long as it is held and when it is released
EventOverPress ==
    /\ last'.op = "event" =>
          /\ \A i \in 1..Len(pushed') : ~pushed'[i].key_pressed
          /\ \A k \in BoundKeys(last'.data) : images'[k] = IdleImage(k)'
    /\ \A k \in keyDown : images[k] = IdleImage(k) => images'[k] = IdleImage(k)'

\* C20: press feedback against state updates. The press callback pushes the
\* pressed (active-colour) image before it sends call_service; an event
\* renders unpressed without looking at whether the key is held; so an event
\* for E between the press and the release of a key bound to E replaces the
\* pressed image by the unpressed one, which the key keeps until its next
\* press.
C20_PressFeedback == []PressOrder /\ [][EventOverPress]_vars

\* C20 witness: a key bound to light.x is held down, its press has sent
\* call_service, and an event for light.x has just put its unpressed image on it
C20_Witness ==
    /\ last.op = "event"
    /\ \E k \in keyDown \cap BoundKeys(last.data) :
         /\ images[k] = IdleImage(k)
         /\ images[k].fill # "green"
         /\ ButtonAt(buttons, k).service # NoId
    /\ CallServiceCount >= 1
====
